---- MODULE Spec2Model ----
(***************************************************************************)
(* clilib: the argument scan of Arguments::new, the queries on the built   *)
(* Arguments and the report/dismiss lifecycle of CliError                  *)
(* (src/src/lib.rs).                                                       *)
(*                                                                         *)
(* A Rust String is a sequence of one-character strings, so that           *)
(* starts_with, len and chars() are computed and not assumed.  All         *)
(* characters used are ASCII: String::len (bytes) equals the number of     *)
(* characters.                                                             *)
(***************************************************************************)
EXTENDS Integers, Sequences, FiniteSets, TLC

VARIABLES
    arg_str_array,  \* lib.rs:146-148, the elements of arg_str_array[1..] scanned so far
    args,           \* lib.rs:139
    naked_values,   \* lib.rs:140
    values,         \* lib.rs:142, the HashMap as a function on its key set
    last_arg,       \* lib.rs:144
    pc,             \* "scan" inside the for loop of lib.rs:148, "done" once Arguments is returned
    err,            \* the CliError instance the current layer holds, or NoError
    result,         \* what the last CliError call returned
    stderr,         \* the lines eprintln! has written for this error
    call,           \* the last CliError call and its argument
    handled,        \* handle calls on the instance held now
    handles,        \* handle calls since the error was constructed, over all layers
    layer,          \* how many times the failure value has been passed up
    query           \* the last query made on the built Arguments: method, argument, return value

argVars == <<arg_str_array, args, naked_values, values, last_arg, pc>>
errVars == <<err, result, stderr, call, handled, handles, layer>>
vars == <<arg_str_array, args, naked_values, values, last_arg, pc,
          err, result, stderr, call, handled, handles, layer, query>>

----------------------------------------------------------------------------
(* Bounds *)

\* number of command line elements after the program name
MaxArgs == 4
\* handle calls made on one error, over all layers
MaxHandles == 3
\* times a failure value is passed to the caller
MaxLayers == 2
\* error codes are 0..MaxCode
MaxCode == 2
\* length of the Vec given to dismiss_by_codes
MaxCodes == 2
\* number of command line elements of an Arguments that is queried
MaxQueryArgs == 3

----------------------------------------------------------------------------
(* Strings *)

Str0 == <<>>
Dash == <<"-">>
DashDash == <<"-", "-">>

\* The command line elements the scan is driven with: the empty string,
\* plain values, a value with an inner dash, numbers, the lone dash, "--",
\* long options, short options, bundles, a bundle with an inner dash and
\* one with a trailing dash.
Elems ==
    { <<>>, <<"a">>, <<"b">>, <<"a", "-">>, <<"1">>, <<"4", "2">>,
      <<"-">>, <<"-", "-">>, <<"-", "-", "a">>,
      <<"-", "a">>, <<"-", "b">>,
      <<"-", "a", "b">>, <<"-", "a", "-">>, <<"-", "a", "-", "b">> }

\* str::starts_with
starts_with(s, p) == Len(s) >= Len(p) /\ SubSeq(s, 1, Len(p)) = p

Last(s) == s[Len(s)]

\* Vec::contains
contains(s, x) == \E i \in 1..Len(s) : s[i] = x

----------------------------------------------------------------------------
(* Arguments::new *)

EmptyMap == [k \in {} |-> <<>>]

\* insert that extends the run already stored under the key
insert_Extend(m, k, v) ==
    [x \in (DOMAIN m) \cup {k} |->
        IF x = k THEN (IF k \in DOMAIN m THEN m[k] \o v ELSE v) ELSE m[x]]

\* HashMap::insert: the value stored under an existing key is replaced
insert(m, k, v) == [x \in (DOMAIN m) \cup {k} |-> IF x = k THEN v ELSE m[x]]

\* FlushValues without the test naked_values.len() != 0
FlushValues_Always(m, key, acc) ==
    [x \in (DOMAIN m) \cup {key} |-> IF x = key THEN acc ELSE m[x]]

\* lib.rs:152-156 and 163-167: the map after the flush
FlushValues(m, key, acc) == IF Len(acc) # 0 THEN insert(m, key, acc) ELSE m

\* lib.rs:152-156 and 163-167: the accumulator after the flush
FlushNaked(acc) == IF Len(acc) # 0 THEN <<>> ELSE acc

\* BundleArgs with the test c != '-' replaced by skipping the first character only
BundleArgs_SkipFirstOnly(arg) ==
    [i \in 1..(Len(arg) - 1) |-> <<"-", arg[i + 1]>>]

\* lib.rs:176-184: the tokens the loop over arg.chars() pushes
RECURSIVE BundleArgs(_)
BundleArgs(arg) ==
    IF arg = <<>> THEN <<>>
    ELSE IF Head(arg) # "-"
         THEN <<(<<"-", Head(arg)>>)>> \o BundleArgs(Tail(arg))
         ELSE BundleArgs(Tail(arg))

\* BundleLastArg with the cursor set to the element itself
BundleLastArg_WholeElement(cur, arg) == arg

\* lib.rs:182: last_arg after the loop over arg.chars()
BundleLastArg(cur, arg) ==
    IF BundleArgs(arg) = <<>> THEN cur ELSE Last(BundleArgs(arg))

\* NewLong with "--" taken as an end-of-options marker: flushed, not pushed
NewLong_EndOfOptions ==
    /\ pc = "scan"
    /\ Len(arg_str_array) < MaxArgs
    /\ \E arg \in Elems :
        /\ starts_with(arg, <<"-", "-">>)
        /\ arg_str_array' = Append(arg_str_array, arg)
        /\ values' = FlushValues(values, last_arg, naked_values)
        /\ naked_values' = FlushNaked(naked_values)
        /\ args' = (IF arg = <<"-", "-">> THEN args ELSE Append(args, arg))
        /\ last_arg' = (IF arg = <<"-", "-">> THEN last_arg ELSE arg)
    /\ UNCHANGED <<pc, errVars, query>>

\* lib.rs:150-160
NewLong ==
    /\ pc = "scan"
    /\ Len(arg_str_array) < MaxArgs
    /\ \E arg \in Elems :
        /\ starts_with(arg, DashDash)
        /\ arg_str_array' = Append(arg_str_array, arg)
        /\ values' = FlushValues(values, last_arg, naked_values)
        /\ naked_values' = FlushNaked(naked_values)
        /\ args' = Append(args, arg)
        /\ last_arg' = arg
    /\ UNCHANGED <<pc, errVars, query>>

\* NewShort with the test arg.len() <= 2
NewShort_LenAtMost2 ==
    /\ pc = "scan"
    /\ Len(arg_str_array) < MaxArgs
    /\ \E arg \in Elems :
        /\ ~starts_with(arg, <<"-", "-">>)
        /\ starts_with(arg, <<"-">>)
        /\ Len(arg) <= 2
        /\ arg_str_array' = Append(arg_str_array, arg)
        /\ values' = FlushValues(values, last_arg, naked_values)
        /\ naked_values' = FlushNaked(naked_values)
        /\ args' = Append(args, arg)
        /\ last_arg' = arg
    /\ UNCHANGED <<pc, errVars, query>>

\* lib.rs:161-173
NewShort ==
    /\ pc = "scan"
    /\ Len(arg_str_array) < MaxArgs
    /\ \E arg \in Elems :
        /\ ~starts_with(arg, DashDash)
        /\ starts_with(arg, Dash)
        /\ Len(arg) = 2
        /\ arg_str_array' = Append(arg_str_array, arg)
        /\ values' = FlushValues(values, last_arg, naked_values)
        /\ naked_values' = FlushNaked(naked_values)
        /\ args' = Append(args, arg)
        /\ last_arg' = arg
    /\ UNCHANGED <<pc, errVars, query>>

\* lib.rs:161-167, 174-185
NewBundle ==
    /\ pc = "scan"
    /\ Len(arg_str_array) < MaxArgs
    /\ \E arg \in Elems :
        /\ ~starts_with(arg, DashDash)
        /\ starts_with(arg, Dash)
        /\ Len(arg) # 2
        /\ arg_str_array' = Append(arg_str_array, arg)
        /\ values' = FlushValues(values, last_arg, naked_values)
        /\ naked_values' = FlushNaked(naked_values)
        /\ args' = args \o BundleArgs(arg)
        /\ last_arg' = BundleLastArg(last_arg, arg)
    /\ UNCHANGED <<pc, errVars, query>>

\* lib.rs:187-190
NewNaked ==
    /\ pc = "scan"
    /\ Len(arg_str_array) < MaxArgs
    /\ \E arg \in Elems :
        /\ ~starts_with(arg, DashDash)
        /\ ~starts_with(arg, Dash)
        /\ arg_str_array' = Append(arg_str_array, arg)
        /\ naked_values' = Append(naked_values, arg)
    /\ UNCHANGED <<args, values, last_arg, pc, errVars, query>>

\* NewFinish without the flush after the loop
NewFinish_NoFlush ==
    /\ pc = "scan"
    /\ pc' = "done"
    /\ UNCHANGED <<arg_str_array, args, naked_values, values, last_arg, errVars, query>>

\* lib.rs:193-203: the input is exhausted; the last flush inserts a clone,
\* so naked_values keeps the last run
NewFinish ==
    /\ pc = "scan"
    /\ values' = FlushValues(values, last_arg, naked_values)
    /\ pc' = "done"
    /\ UNCHANGED <<arg_str_array, args, naked_values, last_arg, errVars, query>>

----------------------------------------------------------------------------
(* CliError *)

Msgs == {"m1", "m2"}
Codes == 0..MaxCode
Levels == {"Error", "Warning"}

\* the Vec<i32> arguments of dismiss_by_codes
CodeVecs == UNION {[1..n -> Codes] : n \in 0..MaxCodes}

\* no CliError has been constructed
NoError == [error |-> "", error_code |-> 0, error_level |-> "None", reported |-> FALSE]

\* Ok(())
Ok == [ok |-> TRUE, err |-> NoError]
\* Err(e)
Err(e) == [ok |-> FALSE, err |-> e]

NoCall == [op |-> "none", code |-> 0, codes |-> <<>>]

\* lib.rs:32-41
CliErrorNew(msg, error_code, error_level) ==
    [error |-> msg, error_code |-> error_code, error_level |-> error_level,
     reported |-> FALSE]

\* lib.rs:66 and 78: the line eprintln! writes
ErrorLine(e) == <<"CARGO_PKG_NAME", " has encountered an error: '", e.error, "'">>
WarningLine(e) == <<"CARGO_PKG_NAME", " has encountered a warning: '", e.error, "'">>

\* HandleSelf without the assignment self.reported = true
HandleSelf_NeverReported(e) == e

\* HandleSelf with the flag set in the Warning branch too
HandleSelf_WarningReported(e) ==
    IF ~e.reported THEN [e EXCEPT !.reported = TRUE] ELSE e

\* lib.rs:64-68, 76-79: the instance after handle
HandleSelf(e) ==
    IF e.error_level = "Error"
    THEN IF ~e.reported THEN [e EXCEPT !.reported = TRUE] ELSE e
    ELSE e

\* lib.rs:64-68, 76-79: the error stream after handle
HandleStderr(e, out) ==
    IF e.error_level = "Error"
    THEN IF ~e.reported THEN Append(out, ErrorLine(e)) ELSE out
    ELSE IF ~e.reported THEN Append(out, WarningLine(e)) ELSE out

\* HandleResult with the clone taken before the flag is set
HandleResult_CloneFirst(e) ==
    IF e.error_level = "Error" THEN [ok |-> FALSE, err |-> e] ELSE Ok

\* lib.rs:71 and 82: what handle returns; the clone is taken after the
\* flag is set
HandleResult(e) ==
    IF e.error_level = "Error" THEN Err(HandleSelf(e)) ELSE Ok

\* lib.rs:88-98
DismissByCodeResult(e, error_code) ==
    IF e.error_code = error_code THEN Ok ELSE Err(e)

\* DismissByCodesResult with only the first code of the Vec compared
DismissByCodesResult_FirstOnly(e, error_codes) ==
    IF error_codes # <<>> /\ error_codes[1] = e.error_code THEN Ok
    ELSE [ok |-> FALSE, err |-> e]

\* lib.rs:101-111
DismissByCodesResult(e, error_codes) ==
    IF contains(error_codes, e.error_code) THEN Ok ELSE Err(e)

\* lib.rs:114-117
DismissResult(e) == Ok

\* lib.rs:32-41: CliError::new, the caller holds the instance
new ==
    /\ call.op = "none"
    /\ \E msg \in Msgs, c \in Codes, l \in Levels :
        /\ err' = CliErrorNew(msg, c, l)
        /\ result' = Ok
    /\ call' = [NoCall EXCEPT !.op = "new"]
    /\ UNCHANGED <<stderr, handled, handles, layer, argVars, query>>

\* lib.rs:44-47: CliError::warn, the instance is inside the returned failure
warn ==
    /\ call.op = "none"
    /\ \E msg \in Msgs, c \in Codes :
        result' = Err(CliErrorNew(msg, c, "Warning"))
    /\ call' = [NoCall EXCEPT !.op = "warn"]
    /\ UNCHANGED <<err, stderr, handled, handles, layer, argVars, query>>

\* lib.rs:50-53: CliError::error
error ==
    /\ call.op = "none"
    /\ \E msg \in Msgs, c \in Codes :
        result' = Err(CliErrorNew(msg, c, "Error"))
    /\ call' = [NoCall EXCEPT !.op = "error"]
    /\ UNCHANGED <<err, stderr, handled, handles, layer, argVars, query>>

\* lib.rs:57-85
handle ==
    /\ err # NoError
    /\ handles < MaxHandles
    /\ err' = HandleSelf(err)
    /\ stderr' = HandleStderr(err, stderr)
    /\ result' = HandleResult(err)
    /\ call' = [NoCall EXCEPT !.op = "handle"]
    /\ handled' = handled + 1
    /\ handles' = handles + 1
    /\ UNCHANGED <<layer, argVars, query>>

\* lib.rs:88-98
dismiss_by_code ==
    /\ err # NoError
    /\ \E c \in Codes :
        /\ result' = DismissByCodeResult(err, c)
        /\ call' = [NoCall EXCEPT !.op = "dismiss_by_code", !.code = c]
    /\ UNCHANGED <<err, stderr, handled, handles, layer, argVars, query>>

\* lib.rs:101-111
dismiss_by_codes ==
    /\ err # NoError
    /\ \E v \in CodeVecs :
        /\ result' = DismissByCodesResult(err, v)
        /\ call' = [NoCall EXCEPT !.op = "dismiss_by_codes", !.codes = v]
    /\ UNCHANGED <<err, stderr, handled, handles, layer, argVars, query>>

\* lib.rs:114-117
dismiss ==
    /\ err # NoError
    /\ result' = DismissResult(err)
    /\ call' = [NoCall EXCEPT !.op = "dismiss"]
    /\ UNCHANGED <<err, stderr, handled, handles, layer, argVars, query>>

\* The failure value a call returned is passed up: the next layer holds the
\* copy inside it (Err(self.clone()), lib.rs:71, 96, 109; Err(CliError::new),
\* lib.rs:46, 52).
Propagate ==
    /\ ~result.ok
    /\ layer < MaxLayers
    /\ err' = result.err
    /\ result' = Ok
    /\ call' = [NoCall EXCEPT !.op = "propagate"]
    /\ handled' = 0
    /\ layer' = layer + 1
    /\ UNCHANGED <<stderr, handles, argVars, query>>

----------------------------------------------------------------------------
(* Queries on the built Arguments; T is i32 *)

NoQuery == [op |-> "none", arg |-> <<>>, ret |-> FALSE]

\* the tokens the queries are made with: the empty string, options that
\* can occur, one that cannot, and a plain value
QueryArgs ==
    { <<>>, <<"-", "a">>, <<"-", "b">>, <<"-", "-">>, <<"-", "-", "a">>,
      <<"-", "c">>, <<"a">> }

\* Option<String>
NoneStr == [some |-> FALSE, v |-> <<>>]
SomeStr(x) == [some |-> TRUE, v |-> x]
\* Option<i32>
NoneI32 == [some |-> FALSE, v |-> 0]
SomeI32(n) == [some |-> TRUE, v |-> n]
\* Result<i32, CliError>
OkI32(n) == [ok |-> TRUE, v |-> n, err |-> NoError]
ErrI32(e) == [ok |-> FALSE, v |-> 0, err |-> e]

IsDigit(c) == c \in {"0", "1", "2", "3", "4", "5", "6", "7", "8", "9"}

DigitVal(c) ==
    CASE c = "0" -> 0 [] c = "1" -> 1 [] c = "2" -> 2 [] c = "3" -> 3
      [] c = "4" -> 4 [] c = "5" -> 5 [] c = "6" -> 6 [] c = "7" -> 7
      [] c = "8" -> 8 [] c = "9" -> 9

\* i32::MAX
I32Max == 2147483647

NotI32 == [ok |-> FALSE, v |-> 0]

\* the digit loop of i32::from_str: the value is accumulated in the
\* direction of the sign, and a step that leaves the range of i32 fails
RECURSIVE ParseDigits(_, _, _)
ParseDigits(s, acc, neg) ==
    IF s = <<>> THEN [ok |-> TRUE, v |-> acc]
    ELSE IF ~IsDigit(Head(s)) THEN NotI32
    ELSE LET d == DigitVal(Head(s))
             lim == IF neg /\ d # 0 THEN (I32Max - (d - 1)) \div 10
                    ELSE (I32Max - d) \div 10
         IN  IF neg
             THEN IF acc < 0 - lim THEN NotI32
                  ELSE ParseDigits(Tail(s), acc * 10 - d, neg)
             ELSE IF acc > lim THEN NotI32
                  ELSE ParseDigits(Tail(s), acc * 10 + d, neg)

\* str::parse::<i32>: an optional sign, then at least one digit and digits
\* only, the value within the range of i32
ParseI32(s) ==
    LET signed == s # <<>> /\ s[1] \in {"+", "-"}
        digits == IF signed THEN Tail(s) ELSE s
    IN  IF digits = <<>> THEN NotI32
        ELSE ParseDigits(digits, 0, signed /\ s[1] = "-")

\* lib.rs:50-53 as called from get_passed_checked
CliErrorError(msg, error_code) == ErrI32(CliErrorNew(msg, error_code, "Error"))

\* get_single returning the last value of the run
get_single_Last(key) ==
    IF key \in DOMAIN values
    THEN IF Len(values[key]) > 0
         THEN [some |-> TRUE, v |-> values[key][Len(values[key])]]
         ELSE NoneStr
    ELSE NoneStr

\* lib.rs:207-224
get_single(key) ==
    IF key \in DOMAIN values
    THEN IF Len(values[key]) > 0 THEN SomeStr(values[key][1]) ELSE NoneStr
    ELSE NoneStr

\* check_arg testing the keys of values instead of args
check_arg_Values(arg) == arg \in DOMAIN values

\* lib.rs:227-230
check_arg(arg) == contains(args, arg)

\* get_passed without the early return on !self.check_arg(arg)
get_passed_NoCheck(arg) ==
    IF arg \in DOMAIN values /\ Len(values[arg]) > 0 /\ ParseI32(values[arg][1]).ok
    THEN SomeI32(ParseI32(values[arg][1]).v)
    ELSE NoneI32

\* lib.rs:233-255
get_passed(arg) ==
    IF ~check_arg(arg) THEN NoneI32
    ELSE IF get_single(arg).some
         THEN IF ParseI32(get_single(arg).v).ok
              THEN SomeI32(ParseI32(get_single(arg).v).v)
              ELSE NoneI32
         ELSE NoneI32

\* lib.rs:262, 272, 277: the three format! strings
MsgNoOption(arg) == <<"No '", arg, "' option passed">>
MsgCannotParse(arg) == <<"Cannot parse argument to '", arg, "'">>
MsgNoArgument(arg) == <<"No argument passed to '", arg, "'">>

\* get_passed_checked with the message of the parse failure used for a
\* missing value too
get_passed_checked_SameMessage(arg) ==
    IF ~contains(args, arg) THEN CliErrorError(MsgNoOption(arg), 1)
    ELSE IF arg \in DOMAIN values /\ Len(values[arg]) > 0 /\ ParseI32(values[arg][1]).ok
         THEN OkI32(ParseI32(values[arg][1]).v)
         ELSE CliErrorError(MsgCannotParse(arg), 1)

\* get_passed_checked without the early return on !self.check_arg(arg)
get_passed_checked_NoCheck(arg) ==
    IF arg \in DOMAIN values /\ Len(values[arg]) > 0
    THEN IF ParseI32(values[arg][1]).ok
         THEN OkI32(ParseI32(values[arg][1]).v)
         ELSE CliErrorError(MsgCannotParse(arg), 1)
    ELSE CliErrorError(MsgNoArgument(arg), 1)

\* lib.rs:258-280
get_passed_checked(arg) ==
    IF ~check_arg(arg) THEN CliErrorError(MsgNoOption(arg), 1)
    ELSE IF get_single(arg).some
         THEN IF ParseI32(get_single(arg).v).ok
              THEN OkI32(ParseI32(get_single(arg).v).v)
              ELSE CliErrorError(MsgCannotParse(arg), 1)
         ELSE CliErrorError(MsgNoArgument(arg), 1)

\* The four queries take &self and change nothing, so a second query on the
\* same Arguments returns what it would have returned as the first: each
\* behaviour makes one.

\* lib.rs:207-224
CallGetSingle ==
    /\ pc = "done"
    /\ query.op = "none"
    /\ \E t \in QueryArgs :
        query' = [op |-> "get_single", arg |-> t, ret |-> get_single(t)]
    /\ UNCHANGED <<argVars, errVars>>

\* lib.rs:227-230
CallCheckArg ==
    /\ pc = "done"
    /\ query.op = "none"
    /\ \E t \in QueryArgs :
        query' = [op |-> "check_arg", arg |-> t, ret |-> check_arg(t)]
    /\ UNCHANGED <<argVars, errVars>>

\* lib.rs:233-255
CallGetPassed ==
    /\ pc = "done"
    /\ query.op = "none"
    /\ \E t \in QueryArgs :
        query' = [op |-> "get_passed", arg |-> t, ret |-> get_passed(t)]
    /\ UNCHANGED <<argVars, errVars>>

\* lib.rs:258-280
CallGetPassedChecked ==
    /\ pc = "done"
    /\ query.op = "none"
    /\ \E t \in QueryArgs :
        query' = [op |-> "get_passed_checked", arg |-> t, ret |-> get_passed_checked(t)]
    /\ UNCHANGED <<argVars, errVars>>

----------------------------------------------------------------------------
(* Specifications *)

Init ==
    /\ arg_str_array = <<>>
    /\ args = <<>>
    /\ naked_values = <<>>
    /\ values = EmptyMap
    /\ last_arg = Str0
    /\ pc = "scan"
    /\ err = NoError
    /\ result = Ok
    /\ stderr = <<>>
    /\ call = NoCall
    /\ handled = 0
    /\ handles = 0
    /\ layer = 0
    /\ query = NoQuery

\* Arguments::new
Next == NewLong \/ NewShort \/ NewBundle \/ NewNaked \/ NewFinish

Spec == Init /\ [][Next]_vars

\* the life of one CliError
NextErr ==
    \/ new \/ warn \/ error
    \/ handle
    \/ dismiss_by_code \/ dismiss_by_codes \/ dismiss
    \/ Propagate

SpecErr == Init /\ [][NextErr]_vars

\* Arguments::new on at most MaxQueryArgs elements, then the queries
NextQuery ==
    \/ /\ Len(arg_str_array) < MaxQueryArgs
       /\ (NewLong \/ NewShort \/ NewBundle \/ NewNaked)
    \/ NewFinish
    \/ CallGetSingle \/ CallCheckArg \/ CallGetPassed \/ CallGetPassedChecked

SpecQuery == Init /\ [][NextQuery]_vars

----------------------------------------------------------------------------
(* What the scan is expected to produce, read off the input alone *)

Front(s) == SubSeq(s, 1, Len(s) - 1)

IsDashChar(c) == c = "-"
NotDashChar(c) == c # "-"
IsLongElem(e) == starts_with(e, DashDash)
IsSingleDashElem(e) == starts_with(e, Dash) /\ ~starts_with(e, DashDash)
IsBundleElem(e) == IsSingleDashElem(e) /\ Len(e) # 2
IsNakedElem(e) == ~starts_with(e, Dash)

\* "-" + c for every character of e that is not a dash
NonDashTokens(e) ==
    LET cs == SelectSeq(e, NotDashChar)
    IN  [i \in 1..Len(cs) |-> <<"-", cs[i]>>]

\* "-" + c for every character of e after its first one
AfterLeadingTokens(e) == [i \in 1..(Len(e) - 1) |-> <<"-", e[i + 1]>>]

\* the option tokens one element stands for
OptionTokens(e) ==
    IF IsLongElem(e) THEN <<e>>
    ELSE IF IsSingleDashElem(e) THEN NonDashTokens(e)
    ELSE <<>>

RECURSIVE ExpectedOptions(_)
ExpectedOptions(s) ==
    IF s = <<>> THEN <<>>
    ELSE ExpectedOptions(Front(s)) \o OptionTokens(Last(s))

\* the nearest option token before the end of s, or the empty string
RECURSIVE CursorAfter(_)
CursorAfter(s) ==
    IF s = <<>> THEN Str0
    ELSE IF OptionTokens(Last(s)) # <<>> THEN Last(OptionTokens(Last(s)))
    ELSE CursorAfter(Front(s))

\* i..j is a maximal run of consecutive naked values of s
IsMaxRun(s, i, j) ==
    /\ i <= j
    /\ \A k \in i..j : IsNakedElem(s[k])
    /\ (i = 1 \/ ~IsNakedElem(s[i - 1]))
    /\ (j = Len(s) \/ ~IsNakedElem(s[j + 1]))

\* r occurs in v as a block
ContainsRun(v, r) ==
    \E off \in 0..(Len(v) - Len(r)) : SubSeq(v, off + 1, off + Len(r)) = r

Range(s) == {s[i] : i \in 1..Len(s)}

----------------------------------------------------------------------------
(* Claims on Arguments::new *)

\* C1: after the build, naked_values is the subsequence of all input
\* elements that do not start with '-', in input order.
C1_FreeValuesAreAllNaked ==
    pc = "done" => naked_values = SelectSeq(arg_str_array, IsNakedElem)

\* C2: after the build, every maximal run of naked values is contained, in
\* order, in values[k], k the nearest option token before the run (the
\* empty string if there is none).
C2_EveryRunRecorded ==
    pc = "done" =>
        \A i, j \in 1..Len(arg_str_array) :
            IsMaxRun(arg_str_array, i, j) =>
                LET k == CursorAfter(SubSeq(arg_str_array, 1, i - 1))
                IN  /\ k \in DOMAIN values
                    /\ ContainsRun(values[k], SubSeq(arg_str_array, i, j))

\* C3: args lists the option tokens in input order, one entry per
\* occurrence; the elements starting with "--" are in it verbatim, and an
\* element "--" is pushed and becomes the cursor like any other.
C3_OptionsInOrder ==
    /\ args = ExpectedOptions(arg_str_array)
    /\ SelectSeq(args, IsLongElem) = SelectSeq(arg_str_array, IsLongElem)
    /\ (arg_str_array # <<>> /\ IsLongElem(Last(arg_str_array))) =>
            /\ args # <<>>
            /\ Last(args) = Last(arg_str_array)
            /\ last_arg = Last(arg_str_array)

C3_Witness ==
    /\ pc = "done"
    /\ arg_str_array = <<DashDash, <<"a">>, DashDash, <<"-", "a">> >>
    /\ args = <<DashDash, DashDash, <<"-", "a">> >>
    /\ values = (DashDash :> << <<"a">> >>)

\* the step scans a single-dash element that is not two characters long
ScansBundle ==
    /\ pc = "scan"
    /\ Len(arg_str_array') = Len(arg_str_array) + 1
    /\ IsBundleElem(Last(arg_str_array'))

\* the step flushes a run that directly follows a bundle which pushed a token
FlushesRunAfterBundle ==
    /\ pc = "scan"
    /\ naked_values # <<>>
    /\ (pc' = "done" \/ naked_values' = <<>>)
    /\ Len(arg_str_array) > Len(naked_values)
    /\ IsBundleElem(arg_str_array[Len(arg_str_array) - Len(naked_values)])
    /\ NonDashTokens(arg_str_array[Len(arg_str_array) - Len(naked_values)]) # <<>>

\* C4 as stated: a single-dash element that is not two characters long
\* pushes "-" + c for every character c after its leading dash and makes
\* the last of them the cursor.
C4_BundleAllButLeading ==
    [][ScansBundle =>
        LET t == AfterLeadingTokens(Last(arg_str_array'))
        IN  /\ args' = args \o t
            /\ (t # <<>> => last_arg' = Last(t))]_vars

\* C4 amended: a single-dash element that is not two characters long pushes
\* "-" + c for every character c of it that is not a dash, in order, and
\* makes the last of them the cursor (no token, no change of cursor); the
\* naked values that directly follow are recorded under that last token and
\* under no other key.
C4_BundleNonDash ==
    /\ [][ScansBundle =>
            LET t == NonDashTokens(Last(arg_str_array'))
            IN  /\ args' = args \o t
                /\ last_arg' = (IF t = <<>> THEN last_arg ELSE Last(t))]_vars
    /\ [][FlushesRunAfterBundle =>
            LET e == arg_str_array[Len(arg_str_array) - Len(naked_values)]
                k == Last(NonDashTokens(e))
            IN  /\ DOMAIN values' = (DOMAIN values) \cup {k}
                /\ values'[k] = naked_values
                /\ \A x \in (DOMAIN values) \ {k} : values'[x] = values[x]]_vars

C4_Witness ==
    /\ pc = "done"
    /\ arg_str_array = << <<"-", "a", "-", "b">>, <<"a">>, <<"b">> >>
    /\ args = << <<"-", "a">>, <<"-", "b">> >>
    /\ values = (<<"-", "b">> :> << <<"a">>, <<"b">> >>)

\* C5: for an input with no element starting with '-': args is empty,
\* naked_values is the input, and values has no entry for the empty input
\* and otherwise the single entry "" -> the input.
C5_NoOptions ==
    (pc = "done" /\ \A i \in 1..Len(arg_str_array) : IsNakedElem(arg_str_array[i])) =>
        /\ args = <<>>
        /\ naked_values = arg_str_array
        /\ (arg_str_array = <<>> => DOMAIN values = {})
        /\ (arg_str_array # <<>> =>
                /\ DOMAIN values = {Str0}
                /\ values[Str0] = arg_str_array)

C5_Witness ==
    /\ pc = "done"
    /\ arg_str_array = << <<"a">>, <<>>, <<"a", "-">>, <<"b">> >>
    /\ values = (Str0 :> arg_str_array)

\* C6: at every step of the scan and in the result, every key of values is
\* an element of args or the empty string.
C6_KeysAreOptions ==
    \A k \in DOMAIN values : k = Str0 \/ k \in Range(args)

C6_Witness ==
    /\ pc = "scan"
    /\ DOMAIN values = {Str0, <<"-", "b">>}
    /\ last_arg = <<"-", "a">>

----------------------------------------------------------------------------
(* Claims on CliError *)

IsFatal == err # NoError /\ err.error_level = "Error"
IsWarning == err # NoError /\ err.error_level = "Warning"

\* every handle call since construction was made on the instance held now
SameInstance == handles = handled

\* C7: on one Fatal instance, reported is false and nothing is written
\* before the first handle call; from the first call on reported is true
\* and exactly one line, the error line, has been written; every handle
\* call returns a failure.
C7_FatalHandledOnce ==
    (IsFatal /\ SameInstance) =>
        /\ (handled = 0 => ~err.reported /\ stderr = <<>>)
        /\ (handled >= 1 => err.reported /\ stderr = <<ErrorLine(err)>>)
        /\ (call.op = "handle" => ~result.ok)

C7_Witness ==
    /\ IsFatal
    /\ SameInstance
    /\ handled = MaxHandles
    /\ call.op = "handle"
    /\ Len(stderr) = 1

\* C8: when a Fatal error is handled in several layers, each on the failure
\* value the previous one returned, one line is written in total, and once
\* it is written every failure value returned carries reported = true.
C8_ReportedOnceAcrossLayers ==
    IsFatal =>
        /\ (handles >= 1 => Len(stderr) = 1)
        /\ (handles = 0 => stderr = <<>>)
        /\ (~result.ok /\ stderr # <<>> => result.err.reported)

C8_Witness ==
    /\ IsFatal
    /\ layer = MaxLayers
    /\ handles = MaxHandles
    /\ handled = 1
    /\ call.op = "dismiss_by_codes"
    /\ ~result.ok
    /\ Len(stderr) = 1

C10_Dismissals ==
    /\ call.op = "dismiss_by_code" =>
            /\ result.ok <=> err.error_code = call.code
            /\ ~result.ok => result.err = err
    /\ call.op = "dismiss_by_codes" =>
            /\ result.ok <=> err.error_code \in Range(call.codes)
            /\ ~result.ok => result.err = err
    /\ call.op = "dismiss" => result.ok

C10_Witness ==
    /\ call.op = "dismiss_by_codes"
    /\ Len(call.codes) = 2
    /\ call.codes[2] = err.error_code
    /\ call.codes[1] # err.error_code
    /\ err.reported
    /\ result.ok

----------------------------------------------------------------------------
(* Claims on the queries *)

InOptions(t) == t \in Range(args)
HasFirstValue(t) == t \in DOMAIN values /\ values[t] # <<>>
FirstValueParses(t) == HasFirstValue(t) /\ ParseI32(values[t][1]).ok

\* C11: get_passed_checked(t) returns a Fatal CliError with code 1 and
\* reported = false, with a message of its own, in each of the cases: t not
\* in args; t in args without a value; t in args with a first value that
\* does not parse.  In every other case it returns Ok, with the parsed value.
C11_CheckedThreeErrors ==
    query.op = "get_passed_checked" =>
        LET t == query.arg
            r == query.ret
        IN  /\ r.ok <=> (InOptions(t) /\ FirstValueParses(t))
            /\ r.ok => r.v = ParseI32(values[t][1]).v
            /\ ~r.ok =>
                /\ r.err.error_code = 1
                /\ r.err.error_level = "Error"
                /\ r.err.reported = FALSE
            /\ ~InOptions(t) => r.err.error = <<"No '", t, "' option passed">>
            /\ (InOptions(t) /\ ~HasFirstValue(t)) =>
                    r.err.error = <<"No argument passed to '", t, "'">>
            /\ (InOptions(t) /\ HasFirstValue(t) /\ ~FirstValueParses(t)) =>
                    r.err.error = <<"Cannot parse argument to '", t, "'">>

C11_Witness ==
    /\ query.op = "get_passed_checked"
    /\ query.arg = <<"-", "a">>
    /\ arg_str_array = << <<"-", "a">>, <<"a">>, <<"1">> >>
    /\ ~query.ret.ok
    /\ query.ret.err.error = <<"Cannot parse argument to '", <<"-", "a">>, "'">>

\* C12: get_passed(t) is none when t is not in args (even if values has an
\* entry under t), none when t has no first value, none when the first
\* value does not parse, and some(v) when t is in args and its first value
\* parses to v.
C12_Parsed ==
    query.op = "get_passed" =>
        LET t == query.arg
            r == query.ret
        IN  /\ ~InOptions(t) => r = NoneI32
            /\ (InOptions(t) /\ ~HasFirstValue(t)) => r = NoneI32
            /\ (InOptions(t) /\ HasFirstValue(t) /\ ~FirstValueParses(t)) => r = NoneI32
            /\ (InOptions(t) /\ FirstValueParses(t)) =>
                    r = [some |-> TRUE, v |-> ParseI32(values[t][1]).v]

C12_Witness ==
    /\ query.op = "get_passed"
    /\ query.arg = Str0
    /\ arg_str_array = << <<"4", "2">>, <<"-", "a">>, <<"1">> >>
    /\ values[Str0] = << <<"4", "2">> >>
    /\ query.ret = NoneI32

\* C13: get_passed(t) is some(v) iff get_passed_checked(t) is Ok(v), with
\* the same v, and none iff get_passed_checked(t) is a failure.
C13_ParsedAgree ==
    /\ query.op = "get_passed" =>
            /\ query.ret.some <=> get_passed_checked(query.arg).ok
            /\ query.ret.some => query.ret.v = get_passed_checked(query.arg).v
    /\ query.op = "get_passed_checked" =>
            /\ query.ret.ok <=> get_passed(query.arg).some
            /\ query.ret.ok => query.ret.v = get_passed(query.arg).v

C13_Witness ==
    /\ query.op = "get_passed"
    /\ query.arg = <<"-", "b">>
    /\ arg_str_array = << <<"-", "a", "b">>, <<"4", "2">>, <<"a">> >>
    /\ query.ret = [some |-> TRUE, v |-> 42]

\* C14: check_arg(t) is true iff t is an element of args, whether or not
\* values has an entry for t; check_arg("") is false even when leading
\* naked values are recorded under "".
C14_Has ==
    query.op = "check_arg" =>
        /\ query.ret <=> InOptions(query.arg)
        /\ query.arg = Str0 => query.ret = FALSE

C14_Witness ==
    /\ query.op = "check_arg"
    /\ query.arg = Str0
    /\ Str0 \in DOMAIN values
    /\ query.ret = FALSE

\* C15: get_single(t) is none when t has no recorded naked value (an option
\* without values, a token that never occurred) and some(first element of
\* values[t]) otherwise; the element read is within the range of values[t].
C15_FirstValue ==
    query.op = "get_single" =>
        LET t == query.arg
            r == query.ret
        IN  /\ ~HasFirstValue(t) => r = NoneStr
            /\ HasFirstValue(t) => r = [some |-> TRUE, v |-> Head(values[t])]
            /\ r.some => (t \in DOMAIN values /\ 1 \in DOMAIN values[t])

C15_Witness ==
    /\ query.op = "get_single"
    /\ query.arg = <<"-", "a">>
    /\ arg_str_array = << <<"-", "a">>, <<"-", "b">>, <<"a">> >>
    /\ query.ret = NoneStr

\* no naked value of s is scanned while t is the cursor
NoValueFollows(s, t) ==
    \A i \in 1..Len(s) :
        IsNakedElem(s[i]) => CursorAfter(SubSeq(s, 1, i - 1)) # t

\* C17: at every step of the scan and in the result no key of values maps
\* to an empty sequence; get_single(t) is some iff t is a key of values; an
\* option token followed by no naked value has no entry.
C17_NoEmptyRuns ==
    /\ \A k \in DOMAIN values : values[k] # <<>>
    /\ query.op = "get_single" => (query.ret.some <=> query.arg \in DOMAIN values)
    /\ \A t \in Range(args) : NoValueFollows(arg_str_array, t) => t \notin DOMAIN values

C17_Witness ==
    /\ query.op = "get_single"
    /\ query.arg = <<"-", "a">>
    /\ arg_str_array = << <<"-", "a">>, <<"-", "b">>, <<"b">> >>
    /\ DOMAIN values = {<<"-", "b">>}
    /\ query.ret = NoneStr

----------------------------------------------------------------------------
(* Claims on the frame of CliError and on the flushes of Arguments::new *)

IsDismissal(op) == op \in {"dismiss", "dismiss_by_code", "dismiss_by_codes"}

\* C16: over any sequence of handle and dismiss calls the message, code and
\* severity of an instance never change; the only change is reported going
\* from false to true, made by handle on a Fatal instance; the dismissals
\* change nothing; a newly constructed instance has reported = false.
C16_Frame ==
    [][/\ err # NoError =>
            /\ err'.error = err.error
            /\ err'.error_code = err.error_code
            /\ err'.error_level = err.error_level
            /\ err' # err =>
                /\ call'.op = "handle"
                /\ err.error_level = "Error"
                /\ ~err.reported
                /\ err'.reported
       /\ (call' # call /\ IsDismissal(call'.op)) => err' = err
       /\ (call.op = "none" /\ call'.op = "new") =>
            (err' # NoError /\ ~err'.reported)
       /\ (call.op = "none" /\ call'.op \in {"warn", "error"}) =>
            (~result'.ok /\ result'.err # NoError /\ ~result'.err.reported)]_vars

C16_Witness ==
    /\ IsFatal
    /\ err.reported
    /\ handles = 1
    /\ layer = 0
    /\ call.op = "dismiss_by_code"
    /\ ~result.ok

\* the last index of the run of naked values of s that starts at i
RECURSIVE RunEnd(_, _)
RunEnd(s, i) ==
    IF i < Len(s) /\ IsNakedElem(s[i + 1]) THEN RunEnd(s, i + 1) ELSE i

\* the maximal runs of naked values of s that have been flushed, each with
\* the cursor it was scanned under
FlushedRuns(s, finished) ==
    LET starts == {i \in 1..Len(s) :
                      IsNakedElem(s[i]) /\ (i = 1 \/ ~IsNakedElem(s[i - 1]))}
        runs == {[from |-> i, to |-> RunEnd(s, i),
                  key |-> CursorAfter(SubSeq(s, 1, i - 1))] : i \in starts}
    IN  {r \in runs : finished \/ r.to < Len(s)}

\* C18: values holds one run per key: the last run flushed under it; the
\* runs flushed under the same key before are not part of it.
C18_LastRunOnly ==
    LET s == arg_str_array
        runs == FlushedRuns(s, pc = "done")
    IN  /\ DOMAIN values = {r.key : r \in runs}
        /\ \A r \in runs :
            (\A q \in runs : q.key = r.key => q.from <= r.from) =>
                values[r.key] = SubSeq(s, r.from, r.to)

C18_Witness ==
    /\ pc = "done"
    /\ arg_str_array = << <<"-", "a">>, <<"a">>, <<"-", "a">>, <<"b">> >>
    /\ values = (<<"-", "a">> :> << <<"b">> >>)

\* the step scans the element "-"
ScansLoneDash ==
    /\ pc = "scan"
    /\ Len(arg_str_array') = Len(arg_str_array) + 1
    /\ Last(arg_str_array') = <<"-">>

\* C19: the element "-" appends nothing to args and to naked_values and
\* leaves the cursor unchanged, but flushes the accumulator; the naked
\* values before and after it are two runs under the same key, so that
\* after the build the key holds the run after it only.
C19_LoneDash ==
    /\ [][ScansLoneDash =>
            /\ args' = args
            /\ last_arg' = last_arg
            /\ naked_values' = <<>>
            /\ naked_values = <<>> => values' = values
            /\ naked_values # <<>> =>
                /\ DOMAIN values' = (DOMAIN values) \cup {last_arg}
                /\ values'[last_arg] = naked_values
                /\ \A x \in (DOMAIN values) \ {last_arg} : values'[x] = values[x]]_vars
    /\ [](\A j \in 2..(Len(arg_str_array) - 1) :
            ( /\ pc = "done"
              /\ arg_str_array[j] = <<"-">>
              /\ IsNakedElem(arg_str_array[j - 1])
              /\ \A i \in (j + 1)..Len(arg_str_array) : IsNakedElem(arg_str_array[i]) ) =>
                /\ last_arg = CursorAfter(SubSeq(arg_str_array, 1, j - 1))
                /\ values[last_arg] = SubSeq(arg_str_array, j + 1, Len(arg_str_array)))

C19_Witness ==
    /\ pc = "done"
    /\ arg_str_array = << <<"-", "b">>, <<"a">>, <<"-">>, <<"b">> >>
    /\ args = << <<"-", "b">> >>
    /\ naked_values = << <<"b">> >>
    /\ values = (<<"-", "b">> :> << <<"b">> >>)

====
